---- MODULE Spec2Model ----
(***************************************************************************)
(* Cineverse backend (Decthon/backend/main.py): the /chat streaming relay, *)
(* the /search-movie two-call lookup and /health, as a state machine.      *)
(*                                                                         *)
(* One request is in flight at a time in Spec; SpecLoop adds a GET /health *)
(* that arrives beside it on the same event loop.  The two providers are   *)
(* the environment: what they answer is chosen when the handler reaches    *)
(* the call, from the small sets defined below.                            *)
(***************************************************************************)
EXTENDS Integers, Sequences, FiniteSets, TLC

VARIABLES
    OPENAI_API_KEY,  \* os.getenv("OPENAI_API_KEY"), read by chat per request
    TMDB_API_KEY,    \* module global read once at import
    request,         \* the request being handled (endpoint and body)
    response,        \* what the HTTP layer hands back for it
    outbound,        \* the outbound provider calls made for it, in order
    gen_pc,          \* where generate_stream stands
    chunks,          \* the chunks the provider stream has delivered so far
    events,          \* the frames generate_stream has yielded so far
    raised,          \* the failure the provider client raised, if it did
    movie_pc,        \* where search_movie stands
    search_response, \* what the search call came back with
    details_response, \* what the detail call came back with
    repeated,        \* the request before this lookup resolved the same title
    health_pending,  \* a GET /health has arrived beside the request in flight
    health_response  \* what that GET /health was answered with

vars == <<OPENAI_API_KEY, TMDB_API_KEY, request, response, outbound,
          gen_pc, chunks, events, raised, movie_pc, search_response,
          details_response, repeated, health_pending, health_response>>

chatVars == <<gen_pc, chunks, events, raised>>
movieVars == <<movie_pc, search_response, details_response, repeated>>
loopVars == <<health_pending, health_response>>
envVars == <<OPENAI_API_KEY, TMDB_API_KEY>>

-----------------------------------------------------------------------------
(* Bounds of the model *)

MaxChunks == 3      \* chunks a provider stream delivers at most
MaxResults == 2     \* entries of a search response's result list at most
MaxGenres == 4      \* entries of a detail response's genre list at most

(* Constants of the program *)

GenreLimit == 3     \* genres[:3]
YearLen == 4        \* movie["release_date"][:4]

-----------------------------------------------------------------------------
(* Python / JSON values: None, str, int and list, with Python's truth test *)

JNull == [t |-> "null"]
JStr(s) == [t |-> "str", v |-> s]
JInt(i) == [t |-> "int", v |-> i]
JList(l) == [t |-> "list", v |-> l]

\* bool(x) for the values above
Truthy(j) ==
    CASE j.t = "null" -> FALSE
      [] j.t = "int" -> j.v # 0
      [] OTHER -> Len(j.v) > 0

\* dict.get(key) with the default None
Get(d, key) == IF key \in DOMAIN d THEN d[key] ELSE JNull

\* dict.get(key, default)
GetOr(d, key, default) == IF key \in DOMAIN d THEN d[key] ELSE default

\* s[:n]
Take(s, n) == SubSeq(s, 1, IF Len(s) < n THEN Len(s) ELSE n)

Whitespace == {" ", "\t", "\n"}

RECURSIVE LStrip(_)
LStrip(s) ==
    IF s # <<>> /\ Head(s) \in Whitespace THEN LStrip(Tail(s)) ELSE s

RECURSIVE RStrip(_)
RStrip(s) ==
    IF s # <<>> /\ s[Len(s)] \in Whitespace
    THEN RStrip(SubSeq(s, 1, Len(s) - 1))
    ELSE s

\* str.strip()
Strip(s) == LStrip(RStrip(s))

-----------------------------------------------------------------------------
(* Inputs *)

\* what os.getenv gives for a credential: unset, set but empty, set
Credentials == {JNull, JStr(""), JStr("key")}

\* ChatRequest.message, as characters
Messages == { <<>>, <<" ">>, <<" ", "\t">>, <<"h", "i">>, <<" ", "a", " ">> }

\* chunk.choices[0].delta.content of a well-formed chunk
Contents == {JNull, JStr(""), JStr("A"), JStr("bc")}

\* a chunk of the provider stream; one without choices is malformed
Chunks ==
    {[choices |-> <<[delta |-> [content |-> c]]>>] : c \in Contents}
    \cup {[choices |-> <<>>]}

\* str(e) of the failures the provider client raises
ProviderFailures == {"timeout", "401 unauthorized"}

IndexErrorMessage == "list index out of range"

\* MovieSearchRequest.title and .year
Titles == {"Heat", "Up"}
Years == {JNull, JInt(0), JInt(1999)}

\* entries of a search response's result list: the id is always there, the
\* other fields the handler reads may be missing, null or empty
Movies ==
    { [id |-> 11, title |-> JStr("Heat"),
       release_date |-> JStr(<<"1","9","9","5","-","1","2","-","1","5">>),
       poster_path |-> JStr("/heat.jpg")],
      [id |-> 22],
      [id |-> 33, title |-> JStr("Up"), release_date |-> JStr(<<>>),
       poster_path |-> JNull],
      [id |-> 22, release_date |-> JNull, poster_path |-> JStr("")],
      [id |-> 11, release_date |-> JStr(<<"1","9","9">>),
       poster_path |-> JStr("/b.jpg")],
      [id |-> 33, title |-> JStr("Up"),
       release_date |-> JStr(<<"T","B","A"," ","2","0","3","0">>)],
      [id |-> 44, release_date |-> JStr(<<"1","9","9","9","-","0","7","-","1","4">>)] }

\* lists of at most n elements of S
SeqsUpTo(S, n) == UNION {[1..k -> S] : k \in 0..n}

ResultLists == SeqsUpTo(Movies, MaxResults)

GenreNames == <<"Action", "Drama", "Crime", "Comedy", "War">>

\* the i-th genre of a detail payload
Genre(i) == [id |-> i, name |-> GenreNames[((i - 1) % Len(GenreNames)) + 1]]

\* genre lists of every length up to MaxGenres, in two orders
GenreLists ==
    {[i \in 1..n |-> Genre(i)] : n \in 0..MaxGenres}
    \cup {[i \in 1..n |-> Genre(n + 1 - i)] : n \in 0..MaxGenres}

\* what an awaited http_client.get(...) followed by .json() can come to:
\* the get raises, the body does not parse, or a JSON object is read.  The
\* HTTP status is carried along; the handler never looks at it.
NoReply == [kind |-> "none"]
TransportError == [kind |-> "transport_error", message |-> "connect timeout"]
BadJson == [kind |-> "bad_json", message |-> "Expecting value"]
JsonReply(status, body) == [kind |-> "json", status |-> status, body |-> body]

\* the body the provider sends with a failure status (bad key, unknown id)
FailurePayload(code) == [success |-> FALSE, status_code |-> code]

SearchReplies ==
    {TransportError, BadJson, JsonReply(401, FailurePayload(7))}
    \cup {JsonReply(200, [results |-> JList(rs)]) : rs \in ResultLists}

DetailReplies ==
    {TransportError, BadJson, JsonReply(404, FailurePayload(34))}
    \cup {JsonReply(200, [genres |-> JList(gs)]) : gs \in GenreLists}

-----------------------------------------------------------------------------
(* Responses and frames *)

NoRequest == [endpoint |-> "none"]
NoResponse == [status |-> 0]

HTTPException(code, text) == [status |-> code, detail |-> text]

StreamingResponse == [status |-> 200, media_type |-> "text/event-stream"]

OpenAIKeyNotConfigured ==
    HTTPException(500,
        "OpenAI API key not configured. Please add OPENAI_API_KEY to .env file.")

MessageEmpty == HTTPException(400, "Message cannot be empty")

TmdbKeyNotConfigured ==
    HTTPException(500,
        "TMDB API key not configured. Please add TMDB_API_KEY to .env file.")

\* f"data: {json.dumps(payload)}\n\n"
Frame(payload) == [frame |-> "json", data |-> payload]
TextEvent(text) == Frame([text |-> text])
ErrorEvent(message) == Frame([error |-> message])
\* "data: [DONE]\n\n"
DoneEvent == [frame |-> "[DONE]"]

IsTextEvent(e) == e.frame = "json" /\ "text" \in DOMAIN e.data
IsErrorEvent(e) == e.frame = "json" /\ "error" \in DOMAIN e.data
IsTerminal(e) == e = DoneEvent \/ IsErrorEvent(e)

\* the outbound calls
LLMCall(message) == [api |-> "llm", message |-> message]

-----------------------------------------------------------------------------
(* The server takes the next request when the previous one is over *)

Ready ==
    /\ gen_pc \in {"none", "closed", "cancelled"}
    /\ movie_pc \in {"none", "done"}

-----------------------------------------------------------------------------
(* POST /chat *)

\* not os.getenv("OPENAI_API_KEY")
ChatKeyMissing == ~Truthy(OPENAI_API_KEY)

\* (mutant) the message is tested without strip()
MessageBlank_NoStrip(message) == message = <<>>

\* not request.message.strip()
MessageBlank(message) == Strip(message) = <<>>

\* (mutant) the message is checked before the credential
Chat_MessageFirst(message) ==
    /\ Ready
    /\ request' = [endpoint |-> "chat", message |-> message]
    /\ outbound' = <<>>
    /\ chunks' = <<>>
    /\ events' = <<>>
    /\ raised' = JNull
    /\ movie_pc' = "none"
    /\ search_response' = NoReply
    /\ details_response' = NoReply
    /\ repeated' = FALSE
    /\ IF MessageBlank(message)
       THEN /\ response' = MessageEmpty
            /\ gen_pc' = "none"
       ELSE IF ChatKeyMissing
       THEN /\ response' = OpenAIKeyNotConfigured
            /\ gen_pc' = "none"
       ELSE /\ response' = StreamingResponse
            /\ gen_pc' = "start"
    /\ UNCHANGED <<envVars, loopVars>>

\* chat(): the two checks, then the StreamingResponse around generate_stream
Chat(message) ==
    /\ Ready
    /\ request' = [endpoint |-> "chat", message |-> message]
    /\ outbound' = <<>>
    /\ chunks' = <<>>
    /\ events' = <<>>
    /\ raised' = JNull
    /\ movie_pc' = "none"
    /\ search_response' = NoReply
    /\ details_response' = NoReply
    /\ repeated' = FALSE
    /\ IF ChatKeyMissing
       THEN /\ response' = OpenAIKeyNotConfigured
            /\ gen_pc' = "none"
       ELSE IF MessageBlank(message)
       THEN /\ response' = MessageEmpty
            /\ gen_pc' = "none"
       ELSE /\ response' = StreamingResponse
            /\ gen_pc' = "start"
    /\ UNCHANGED <<envVars, loopVars>>

\* (mutant) the except clause yields a fixed text instead of str(e)
Raise_Generic(message) ==
    /\ events' = Append(events, ErrorEvent("stream failed"))
    /\ gen_pc' = "yield_error"

\* the except clause of generate_stream: one error frame, suspended at line 110
Raise(message) ==
    /\ events' = Append(events, ErrorEvent(message))
    /\ gen_pc' = "yield_error"

\* client.chat.completions.create(...) returns the stream
GenCreateOk ==
    /\ gen_pc = "start"
    /\ outbound' = Append(outbound, LLMCall(request.message))
    /\ gen_pc' = "iter"
    /\ UNCHANGED <<envVars, loopVars, request, response, chunks, events,
                   raised, movieVars>>

\* client.chat.completions.create(...) raises
GenCreateFails(failure) ==
    /\ gen_pc = "start"
    /\ outbound' = Append(outbound, LLMCall(request.message))
    /\ raised' = JStr(failure)
    /\ Raise(failure)
    /\ UNCHANGED <<envVars, loopVars, request, response, chunks, movieVars>>

\* chunk.choices[0].delta.content of the loop body: the text to yield, if any
ChunkText(chunk) == chunk.choices[1].delta.content

\* (mutant) the loop tests "content is not None": empty text is yielded too
GenChunk_NotNone(chunk) ==
    /\ gen_pc = "iter"
    /\ Len(chunks) < MaxChunks
    /\ chunks' = Append(chunks, chunk)
    /\ IF chunk.choices = <<>>
       THEN Raise(IndexErrorMessage)
       ELSE IF ChunkText(chunk) # JNull
       THEN /\ events' = Append(events, TextEvent(ChunkText(chunk).v))
            /\ gen_pc' = "yield_text"
       ELSE UNCHANGED <<events, gen_pc>>
    /\ UNCHANGED <<envVars, loopVars, request, response, outbound, raised,
                   movieVars>>

\* the loop takes the next chunk and, when it carries text, yields its frame
GenChunk(chunk) ==
    /\ gen_pc = "iter"
    /\ Len(chunks) < MaxChunks
    /\ chunks' = Append(chunks, chunk)
    /\ IF chunk.choices = <<>>
       THEN Raise(IndexErrorMessage)
       ELSE IF Truthy(ChunkText(chunk))
       THEN /\ events' = Append(events, TextEvent(ChunkText(chunk).v))
            /\ gen_pc' = "yield_text"
       ELSE UNCHANGED <<events, gen_pc>>
    /\ UNCHANGED <<envVars, loopVars, request, response, outbound, raised,
                   movieVars>>

\* taking the next chunk raises
GenChunkFails(failure) ==
    /\ gen_pc = "iter"
    /\ raised' = JStr(failure)
    /\ Raise(failure)
    /\ UNCHANGED <<envVars, loopVars, request, response, outbound, chunks,
                   movieVars>>

\* (mutant) the loop ends and nothing is yielded after it
GenExhausted_NoSentinel ==
    /\ gen_pc = "iter"
    /\ gen_pc' = "closed"
    /\ UNCHANGED <<envVars, loopVars, request, response, outbound, chunks,
                   events, raised, movieVars>>

\* the provider stream is exhausted: the Done sentinel, suspended at line 106
GenExhausted ==
    /\ gen_pc = "iter"
    /\ events' = Append(events, DoneEvent)
    /\ gen_pc' = "yield_done"
    /\ UNCHANGED <<envVars, loopVars, request, response, outbound, chunks,
                   raised, movieVars>>

\* the response writer asks for the next frame: the generator goes on after
\* its yield, back into the loop or off its end
GenResume ==
    /\ gen_pc \in {"yield_text", "yield_done", "yield_error"}
    /\ gen_pc' = IF gen_pc = "yield_text" THEN "iter" ELSE "closed"
    /\ UNCHANGED <<envVars, loopVars, request, response, outbound, chunks,
                   events, raised, movieVars>>

\* (mutant) the except clause catches the close too and yields its frame
Disconnect_Caught ==
    /\ gen_pc \in {"start", "yield_text"}
    /\ events' = Append(events, ErrorEvent("GeneratorExit"))
    /\ gen_pc' = "cancelled"
    /\ UNCHANGED <<envVars, loopVars, request, response, outbound, chunks,
                   raised, movieVars>>

\* the client goes away and the response writer closes the generator where
\* it is suspended, before its first step or at the yield of line 104:
\* GeneratorExit is no Exception, the except clause of line 108 lets it pass
Disconnect ==
    /\ gen_pc \in {"start", "yield_text"}
    /\ gen_pc' = "cancelled"
    /\ UNCHANGED <<envVars, loopVars, request, response, outbound, chunks,
                   events, raised, movieVars>>

-----------------------------------------------------------------------------
(* POST /search-movie *)

TMDB_IMAGE_BASE_URL == "https://image.tmdb.org/t/p/w500"

JsonResponse(body) == [status |-> 200, body |-> body]

\* search_params, with the year only when request.year is truthy
SearchParams(title, year) ==
    IF Truthy(year)
    THEN [api_key |-> TMDB_API_KEY.v, query |-> title, include_adult |-> FALSE,
          year |-> year.v]
    ELSE [api_key |-> TMDB_API_KEY.v, query |-> title, include_adult |-> FALSE]

SearchCall(params) == [api |-> "tmdb_search", params |-> params]
DetailCall(movie_id) == [api |-> "tmdb_detail", movie_id |-> movie_id]

\* the except clause of search_movie
LookupError(message) ==
    HTTPException(500, "Error fetching movie data: " \o message)

\* (mutant) no result is answered with an HTTP 404
NotFound_Raises(title) == HTTPException(404, "Movie '" \o title \o "' not found")

\* f"Movie '{request.title}' not found"
NotFound(title) ==
    JsonResponse([found |-> FALSE,
                  message |-> "Movie '" \o title \o "' not found"])

\* (mutant) the poster path is tested with "is not None": an empty path
\* gives the bare prefix
PosterUrl_NotNone(movie) ==
    IF Get(movie, "poster_path") # JNull
    THEN JStr(TMDB_IMAGE_BASE_URL \o movie.poster_path.v)
    ELSE JNull

\* poster_url: the image prefix and the path, when there is a path
PosterUrl(movie) ==
    IF Truthy(Get(movie, "poster_path"))
    THEN JStr(TMDB_IMAGE_BASE_URL \o movie.poster_path.v)
    ELSE JNull

\* (mutant) the year is cut from the end of the release date
YearOf_FromEnd(movie) ==
    IF Truthy(Get(movie, "release_date"))
    THEN LET d == movie.release_date.v
         IN  SubSeq(d, IF Len(d) > YearLen THEN Len(d) - YearLen + 1 ELSE 1, Len(d))
    ELSE <<>>

\* year: the first characters of the release date, when there is one
YearOf(movie) ==
    IF Truthy(Get(movie, "release_date"))
    THEN Take(movie.release_date.v, YearLen)
    ELSE <<>>

\* [genre["name"] for genre in details.get("genres", [])]
GenreNamesOf(body) ==
    LET gs == GetOr(body, "genres", JList(<<>>)).v
    IN  [i \in 1..Len(gs) |-> gs[i].name]

\* (mutant) the genre list is returned whole
LimitGenres_Unlimited(genres) == genres

\* genres[:3]
LimitGenres(genres) == Take(genres, GenreLimit)

\* the movie of a found result (rating and overview are copied from the
\* search result and are left out)
MovieData(title, movie, body) ==
    [id |-> movie.id,
     title |-> GetOr(movie, "title", JStr(title)).v,
     year |-> YearOf(movie),
     poster_url |-> PosterUrl(movie),
     genres |-> LimitGenres(GenreNamesOf(body))]

Found(title, movie, body) ==
    JsonResponse([found |-> TRUE, movie |-> MovieData(title, movie, body)])

\* (mutant) the key is tested with "is None": an empty key passes
TmdbKeyMissing_IsNone == TMDB_API_KEY = JNull

\* not TMDB_API_KEY
TmdbKeyMissing == ~Truthy(TMDB_API_KEY)

\* the request handled last was a lookup of this title that ended found:true
ResolvedBefore(title) ==
    /\ request.endpoint = "search-movie"
    /\ request.title = title
    /\ movie_pc = "done"
    /\ response.status = 200
    /\ response.body.found

\* (mutant) a title resolved by the request before is answered from a cache
SearchMovie_Cached(title, year) ==
    /\ Ready
    /\ request' = [endpoint |-> "search-movie", title |-> title, year |-> year]
    /\ gen_pc' = "none"
    /\ chunks' = <<>>
    /\ events' = <<>>
    /\ raised' = JNull
    /\ search_response' = NoReply
    /\ details_response' = NoReply
    /\ repeated' = ResolvedBefore(title)
    /\ IF ~Truthy(TMDB_API_KEY)
       THEN /\ response' = TmdbKeyNotConfigured
            /\ outbound' = <<>>
            /\ movie_pc' = "none"
       ELSE IF ResolvedBefore(title)
       THEN /\ response' = response
            /\ outbound' = <<>>
            /\ movie_pc' = "done"
       ELSE /\ response' = NoResponse
            /\ outbound' = <<SearchCall(SearchParams(title, year))>>
            /\ movie_pc' = "await_search"
    /\ UNCHANGED <<envVars, loopVars>>

\* search_movie up to its first await: the key check, then the search call
SearchMovie(title, year) ==
    /\ Ready
    /\ request' = [endpoint |-> "search-movie", title |-> title, year |-> year]
    /\ gen_pc' = "none"
    /\ chunks' = <<>>
    /\ events' = <<>>
    /\ raised' = JNull
    /\ search_response' = NoReply
    /\ details_response' = NoReply
    /\ repeated' = ResolvedBefore(title)
    /\ IF TmdbKeyMissing
       THEN /\ response' = TmdbKeyNotConfigured
            /\ outbound' = <<>>
            /\ movie_pc' = "none"
       ELSE /\ response' = NoResponse
            /\ outbound' = <<SearchCall(SearchParams(title, year))>>
            /\ movie_pc' = "await_search"
    /\ UNCHANGED <<envVars, loopVars>>

\* (mutant) the last result is taken
FirstResult_Last(search_data) ==
    search_data.results.v[Len(search_data.results.v)]

\* the first result of a search payload, movie = search_data["results"][0]
FirstResult(search_data) == search_data.results.v[1]

\* not search_data.get("results")
NoResults(search_data) == ~Truthy(Get(search_data, "results"))

\* the search call comes back: lines 195 to 205
SearchReturns(reply) ==
    /\ movie_pc = "await_search"
    /\ search_response' = reply
    /\ IF reply.kind # "json"
       THEN /\ response' = LookupError(reply.message)
            /\ movie_pc' = "done"
            /\ UNCHANGED outbound
       ELSE IF NoResults(reply.body)
       THEN /\ response' = NotFound(request.title)
            /\ movie_pc' = "done"
            /\ UNCHANGED outbound
       ELSE /\ outbound' = Append(outbound, DetailCall(FirstResult(reply.body).id))
            /\ movie_pc' = "await_details"
            /\ UNCHANGED response
    /\ UNCHANGED <<envVars, loopVars, request, chatVars, details_response,
                   repeated>>

\* the detail call comes back: lines 209 to 235
DetailReturns(reply) ==
    /\ movie_pc = "await_details"
    /\ details_response' = reply
    /\ movie_pc' = "done"
    /\ response' =
          IF reply.kind # "json"
          THEN LookupError(reply.message)
          ELSE Found(request.title, FirstResult(search_response.body), reply.body)
    /\ UNCHANGED <<envVars, loopVars, request, outbound, chatVars,
                   search_response, repeated>>

-----------------------------------------------------------------------------
(* GET /health *)

\* (mutant) tmdb_configured tells whether the key is set, empty or not
HealthPayload_IsNotNone ==
    [status |-> "healthy", service |-> "Cineverse API", model |-> "gpt-4o",
     tmdb_configured |-> TMDB_API_KEY # JNull]

\* the dict health_check returns
HealthPayload ==
    [status |-> "healthy", service |-> "Cineverse API", model |-> "gpt-4o",
     tmdb_configured |-> Truthy(TMDB_API_KEY)]

health_check ==
    /\ Ready
    /\ request' = [endpoint |-> "health"]
    /\ response' = JsonResponse(HealthPayload)
    /\ outbound' = <<>>
    /\ gen_pc' = "none"
    /\ chunks' = <<>>
    /\ events' = <<>>
    /\ raised' = JNull
    /\ movie_pc' = "none"
    /\ search_response' = NoReply
    /\ details_response' = NoReply
    /\ repeated' = FALSE
    /\ UNCHANGED <<envVars, loopVars>>

-----------------------------------------------------------------------------

Init ==
    /\ OPENAI_API_KEY \in Credentials
    /\ TMDB_API_KEY \in Credentials
    /\ request = NoRequest
    /\ response = NoResponse
    /\ outbound = <<>>
    /\ gen_pc = "none"
    /\ chunks = <<>>
    /\ events = <<>>
    /\ raised = JNull
    /\ movie_pc = "none"
    /\ search_response = NoReply
    /\ details_response = NoReply
    /\ repeated = FALSE
    /\ health_pending = FALSE
    /\ health_response = NoResponse

Next ==
    \/ \E message \in Messages : Chat(message)
    \/ GenCreateOk
    \/ \E failure \in ProviderFailures : GenCreateFails(failure)
    \/ \E chunk \in Chunks : GenChunk(chunk)
    \/ \E failure \in ProviderFailures : GenChunkFails(failure)
    \/ GenExhausted
    \/ GenResume
    \/ Disconnect
    \/ \E title \in Titles, year \in Years : SearchMovie(title, year)
    \/ \E reply \in SearchReplies : SearchReturns(reply)
    \/ \E reply \in DetailReplies : DetailReturns(reply)
    \/ health_check

Spec == Init /\ [][Next]_vars

-----------------------------------------------------------------------------
(* The event loop: a GET /health that arrives beside the request in flight *)

\* (mutant) the provider client is awaited: the loop is free while it waits
LoopFree_Awaited == TRUE

\* The handlers are coroutines on one event loop (uvicorn.run, one process),
\* and another request is handled only while the one in flight is suspended.
\* search_movie awaits its two calls, and generate_stream is suspended at
\* its yields; but its provider client is the synchronous OpenAI client, so
\* from the for statement of line 100 until the next chunk is there the
\* generator keeps the loop's thread.
LoopFree == gen_pc # "iter"

\* a GET /health arrives
HealthArrives ==
    /\ ~health_pending
    /\ health_pending' = TRUE
    /\ health_response' = NoResponse
    /\ UNCHANGED <<envVars, request, response, outbound, chatVars, movieVars>>

\* health_check() runs for it, as soon as the loop is free
HealthServed ==
    /\ health_pending
    /\ LoopFree
    /\ health_pending' = FALSE
    /\ health_response' = JsonResponse(HealthPayload)
    /\ UNCHANGED <<envVars, request, response, outbound, chatVars, movieVars>>

NextLoop ==
    \/ Next
    \/ HealthArrives
    \/ HealthServed

SpecLoop == Init /\ [][NextLoop]_vars

-----------------------------------------------------------------------------
(* Properties of the streaming relay *)

\* the texts of the text frames of a frame sequence, in order
RECURSIVE TextsOf(_)
TextsOf(evs) ==
    IF evs = <<>> THEN <<>>
    ELSE IF IsTextEvent(Head(evs))
         THEN <<Head(evs).data.text>> \o TextsOf(Tail(evs))
         ELSE TextsOf(Tail(evs))

\* a chunk that carries text of at least one character
CarriesText(chunk) ==
    /\ chunk.choices # <<>>
    /\ chunk.choices[1].delta.content.t = "str"
    /\ chunk.choices[1].delta.content.v # ""

\* the texts of the chunks that carry text, in the order delivered
RECURSIVE NonEmptyTexts(_)
NonEmptyTexts(cs) ==
    IF cs = <<>> THEN <<>>
    ELSE IF CarriesText(Head(cs))
         THEN <<Head(cs).choices[1].delta.content.v>> \o NonEmptyTexts(Tail(cs))
         ELSE NonEmptyTexts(Tail(cs))

StreamOpened == request.endpoint = "chat" /\ response = StreamingResponse

StreamOver == gen_pc \in {"yield_done", "yield_error", "closed"}

\* C1: a stream opened for a non-blank message yields exactly one terminal
\* frame, the Done sentinel or an error frame: no frame before the last one
\* is terminal, and once the generator is past its loop the last one is.
C1_ExactlyOneTerminalEvent ==
    StreamOpened =>
        /\ \A i \in 1..Len(events) : IsTerminal(events[i]) => i = Len(events)
        /\ StreamOver => events # <<>> /\ IsTerminal(events[Len(events)])

C1_Witness ==
    /\ StreamOpened
    /\ gen_pc = "closed"
    /\ Len(events) = 3
    /\ IsTextEvent(events[1])
    /\ events[3] = DoneEvent

\* C2: the text frames are, in order, exactly the delivered chunks that carry
\* non-empty text, one frame each; no frame stands for a chunk whose text is
\* empty or absent.
C2_TextEventsAreTheNonEmptyFragments ==
    /\ TextsOf(events) = NonEmptyTexts(chunks)
    /\ \A i \in 1..Len(events) :
          IsTextEvent(events[i]) => events[i].data.text # ""

C2_Witness ==
    /\ Len(chunks) = 3
    /\ ~CarriesText(chunks[2])
    /\ TextsOf(events) = <<"bc", "A">>

\* C3: once the provider client has raised, at creation or at a retrieval,
\* the frames are the text frames of the chunks delivered before, then one
\* error frame with the failure's message, and nothing after it; the
\* generator is past its loop and the provider was called once.
C3_FailureEndsTheStream ==
    raised # JNull =>
        /\ LET texts == NonEmptyTexts(chunks)
           IN  events = [i \in 1..Len(texts) |-> TextEvent(texts[i])]
                        \o <<ErrorEvent(raised.v)>>
        /\ gen_pc \in {"yield_error", "closed"}
        /\ outbound = <<LLMCall(request.message)>>

C3_Witness ==
    /\ raised # JNull
    /\ gen_pc = "closed"
    /\ Len(chunks) = 3
    /\ Len(events) = 3
    /\ IsErrorEvent(events[3])

-----------------------------------------------------------------------------
(* Properties of the request checks *)

\* every character of the message is whitespace
AllWhitespace(message) == \A i \in 1..Len(message) : message[i] \in Whitespace

BlankChat == request.endpoint = "chat" /\ AllWhitespace(request.message)

NothingStarted == outbound = <<>> /\ gen_pc = "none" /\ events = <<>>

\* C4 as claimed: a /chat request with a blank message is rejected with the
\* client error, and no provider call, stream or frame comes of it.
C4_BlankMessageIsClientError ==
    BlankChat => response.status = 400 /\ NothingStarted

\* C4 amended: a /chat request with a blank message is rejected, with the
\* client error when the model-provider credential is there and with the
\* configuration error when it is not, and no provider call, stream or frame
\* comes of it.
C4_BlankMessageIsRejected ==
    BlankChat =>
        /\ response = IF Truthy(OPENAI_API_KEY)
                      THEN MessageEmpty
                      ELSE OpenAIKeyNotConfigured
        /\ NothingStarted

C4_Witness ==
    /\ BlankChat
    /\ request.message = <<" ", "\t">>
    /\ response.status = 400

\* C5: a request to an endpoint whose credential is missing ends in that
\* endpoint's configuration error with no outbound call made, and the server
\* is ready for the next request.
C5_MissingCredentialIsConfigurationError ==
    /\ (request.endpoint = "chat" /\ ~Truthy(OPENAI_API_KEY)) =>
          /\ response = OpenAIKeyNotConfigured
          /\ outbound = <<>>
          /\ Ready
    /\ (request.endpoint = "search-movie" /\ ~Truthy(TMDB_API_KEY)) =>
          /\ response = TmdbKeyNotConfigured
          /\ outbound = <<>>
          /\ Ready

C5_Witness ==
    /\ request.endpoint = "search-movie"
    /\ TMDB_API_KEY = JStr("")
    /\ response.status = 500

-----------------------------------------------------------------------------
(* Properties of the movie lookup *)

\* the result list of the search payload, when the payload has one
HasResults ==
    /\ search_response.kind = "json"
    /\ "results" \in DOMAIN search_response.body
    /\ search_response.body.results.t = "list"

Results == search_response.body.results.v

\* the lookup is over and answered with a found:true / found:false result
LookupResult(found) ==
    /\ request.endpoint = "search-movie"
    /\ movie_pc = "done"
    /\ response.status = 200
    /\ response.body.found = found

\* C6: when the search payload's result list is empty, the response is the
\* plain result {found: false, message: "Movie '<title>' not found"} for the
\* requested title, and the only outbound call is the search call.
C6_ZeroResultsIsNotFound ==
    (HasResults /\ Results = <<>>) =>
        /\ response = [status |-> 200,
                       body |-> [found |-> FALSE,
                                 message |-> "Movie '" \o request.title
                                             \o "' not found"]]
        /\ Len(outbound) = 1
        /\ outbound[1].api = "tmdb_search"

C6_Witness ==
    /\ HasResults
    /\ Results = <<>>
    /\ request.title = "Up"
    /\ LookupResult(FALSE)

\* C7: when the search payload has one result or more, the outbound calls are
\* the search call and then one detail call, for the id of the first result.
C7_OneDetailCallForTheFirstResult ==
    (HasResults /\ Results # <<>>) =>
        /\ Len(outbound) = 2
        /\ outbound[1].api = "tmdb_search"
        /\ outbound[2] = [api |-> "tmdb_detail", movie_id |-> Results[1].id]

\* two results, a year given, and the second result is the one of that year
C7_Witness ==
    /\ HasResults
    /\ Len(Results) = 2
    /\ request.year = JInt(1999)
    /\ Results[1].id = 11
    /\ Results[2].id = 44
    /\ movie_pc = "done"
    /\ outbound[2].movie_id = 11

\* a call that failed: the get raised, the body did not parse, or the
\* provider answered with a failure status
CallFailed(reply) ==
    \/ reply.kind \in {"transport_error", "bad_json"}
    \/ reply.kind = "json" /\ reply.status >= 400

\* C8 as claimed: when the search call or the detail call failed, the request
\* ends in the server error, never in a found:false or found:true result.
C8_FailedCallIsServerError ==
    (movie_pc = "done"
        /\ (CallFailed(search_response) \/ CallFailed(details_response)))
    => response.status = 500

\* the genre names of the detail payload, none when it has no genre list
DetailGenreNames ==
    IF "genres" \in DOMAIN details_response.body
    THEN [i \in 1..Len(details_response.body.genres.v) |->
              details_response.body.genres.v[i].name]
    ELSE <<>>

\* C9: the genres of a found:true result are the first min(3, n) of the
\* detail payload's n genre names, in the payload's order.
C9_GenresAreTheFirstThree ==
    LookupResult(TRUE) =>
        LET names == DetailGenreNames
            k == IF Len(names) < 3 THEN Len(names) ELSE 3
        IN  response.body.movie.genres = [i \in 1..k |-> names[i]]

C9_Witness ==
    /\ LookupResult(TRUE)
    /\ Len(DetailGenreNames) = 4
    /\ DetailGenreNames[1] = "Comedy"
    /\ Len(response.body.movie.genres) = 3

Digits == {"0", "1", "2", "3", "4", "5", "6", "7", "8", "9"}

\* the release date of the first result, None when the field is missing
ReleaseDate ==
    IF "release_date" \in DOMAIN Results[1]
    THEN Results[1].release_date
    ELSE JNull

\* no release date: the field is missing, null or the empty string
NoReleaseDate == ReleaseDate.t = "null" \/ Len(ReleaseDate.v) = 0

\* C10 as claimed: the year of a found:true result is empty exactly when
\* there is no release date, and otherwise four digits, the first four
\* characters of the release date.
C10_YearIsFourDigitsOrEmpty ==
    LookupResult(TRUE) =>
        LET year == response.body.movie.year
        IN  /\ (year = <<>>) <=> NoReleaseDate
            /\ year # <<>> =>
                  /\ Len(year) = 4
                  /\ \A i \in 1..4 : year[i] \in Digits
                  /\ \A i \in 1..4 : year[i] = ReleaseDate.v[i]

\* C10 amended: the year of a found:true result is empty exactly when there
\* is no release date (missing, null or empty), and otherwise the first four
\* characters of the release date, or all of it when it is shorter.
C10_YearIsThePrefixOrEmpty ==
    LookupResult(TRUE) =>
        LET year == response.body.movie.year
        IN  /\ (year = <<>>) <=> NoReleaseDate
            /\ ~NoReleaseDate =>
                  /\ Len(year) = IF Len(ReleaseDate.v) < 4
                                 THEN Len(ReleaseDate.v) ELSE 4
                  /\ \A i \in 1..Len(year) : year[i] = ReleaseDate.v[i]

C10_Witness ==
    /\ LookupResult(TRUE)
    /\ ReleaseDate = JStr(<<"1","9","9","9","-","0","7","-","1","4">>)
    /\ response.body.movie.year = <<"1", "9", "9", "9">>

\* the poster path of the first result, None when the field is missing
PosterPath ==
    IF "poster_path" \in DOMAIN Results[1]
    THEN Results[1].poster_path
    ELSE JNull

\* no poster path: the field is missing, null or the empty string
NoPosterPath == PosterPath.t = "null" \/ PosterPath.v = ""

\* C11: the poster_url of a found:true result is null when the first result
\* has no poster path, and otherwise the image-host prefix followed by that
\* path; it is never the bare prefix.
C11_PosterUrlIsPrefixAndPathOrNull ==
    LookupResult(TRUE) =>
        LET url == response.body.movie.poster_url
        IN  /\ NoPosterPath => url = JNull
            /\ ~NoPosterPath =>
                  url = JStr("https://image.tmdb.org/t/p/w500" \o PosterPath.v)
            /\ url # JStr("https://image.tmdb.org/t/p/w500")

C11_Witness ==
    /\ LookupResult(TRUE)
    /\ PosterPath = JStr("")
    /\ response.body.movie.poster_url = JNull

\* C13 as claimed: a found:false result is given only when the search call
\* succeeded with a payload whose result list is empty.
C13_NotFoundOnlyForEmptyResults ==
    LookupResult(FALSE) =>
        /\ search_response.status = 200
        /\ HasResults
        /\ Results = <<>>

\* C18 as claimed: the search call carries the year filter exactly when the
\* request gave a year, whatever integer it is, and then the filter is that
\* year; the query is the requested title and adult content is excluded.
C18_YearFilterWhenYearGiven ==
    (request.endpoint = "search-movie" /\ outbound # <<>>) =>
        LET params == outbound[1].params
        IN  /\ outbound[1].api = "tmdb_search"
            /\ ("year" \in DOMAIN params) <=> (request.year # JNull)
            /\ "year" \in DOMAIN params => params.year = request.year.v
            /\ params.query = request.title
            /\ params.include_adult = FALSE

\* C19: a /chat request with a blank message and no model-provider
\* credential ends in the configuration error (500); the client error (400)
\* is given only to a blank message when the credential is there.
C19_CredentialCheckComesFirst ==
    request.endpoint = "chat" =>
        /\ (AllWhitespace(request.message) /\ ~Truthy(OPENAI_API_KEY)) =>
              response.status = 500 /\ response = OpenAIKeyNotConfigured
        /\ response.status = 400 =>
              AllWhitespace(request.message) /\ Truthy(OPENAI_API_KEY)

C19_Witness ==
    /\ request.endpoint = "chat"
    /\ request.message = <<" ">>
    /\ OPENAI_API_KEY = JNull
    /\ response.status = 500

-----------------------------------------------------------------------------
(* Properties of /health, of the event loop and of the handlers together *)

\* the payload of /health, with the flag read off the credential
HealthAnswer ==
    [status |-> 200,
     body |-> [status |-> "healthy", service |-> "Cineverse API",
               model |-> "gpt-4o",
               tmdb_configured |->
                   (TMDB_API_KEY.t = "str" /\ TMDB_API_KEY.v # "")]]

\* the step on which the GET /health beside the request in flight is answered
HealthAnswered ==
    health_response' # health_response /\ health_response' # NoResponse

\* C12: every answer of /health is the static payload whose tmdb_configured
\* is true exactly when the movie-database credential is a non-empty string;
\* no outbound call is made for it, and answering it leaves the credentials
\* and the request in flight as they are.
C12_HealthIsStaticAndPure ==
    /\ [](health_response # NoResponse => health_response = HealthAnswer)
    /\ [](request.endpoint = "health" =>
              response = HealthAnswer /\ outbound = <<>>)
    /\ [][HealthAnswered =>
              UNCHANGED <<envVars, request, response, outbound, chatVars,
                          movieVars>>]_vars

\* answered in the middle of a stream, with the credential set but empty
C12_Witness ==
    /\ health_response.status = 200
    /\ ~health_response.body.tmdb_configured
    /\ TMDB_API_KEY = JStr("")
    /\ gen_pc = "yield_text"
    /\ outbound # <<>>

\* C14 as claimed: while a /chat request waits for its next chunk, a GET
\* /health that has arrived can be handled.
C14_WaitingChatLetsOthersRun ==
    (gen_pc = "iter" /\ health_pending) => ENABLED HealthServed

\* the number of outbound calls to one api made for the request
Calls(api) == Cardinality({i \in 1..Len(outbound) : outbound[i].api = api})

\* no call is made twice for one request, and nothing follows a failure
NoRetry ==
    /\ Calls("llm") <= 1
    /\ Calls("tmdb_search") <= 1
    /\ Calls("tmdb_detail") <= 1
    /\ raised # JNull => Len(outbound) = 1
    /\ CallFailed(search_response) => Len(outbound) = 1
    /\ CallFailed(details_response) => Len(outbound) = 2

\* C15 as claimed: a request makes each of its outbound calls at most once,
\* and the first failure is the outcome of the request, with no outbound
\* call after it.
C15_NoRetryAndFailureIsTheOutcome ==
    /\ NoRetry
    /\ raised # JNull => IsErrorEvent(events[Len(events)])
    /\ CallFailed(search_response) => response.status = 500
    /\ CallFailed(details_response) => response.status = 500

\* the movie a found:true result has to carry, from the request and the two
\* payloads alone
ExpectedMovie ==
    [id |-> Results[1].id,
     title |-> IF "title" \in DOMAIN Results[1]
               THEN Results[1].title.v
               ELSE request.title,
     year |-> IF NoReleaseDate
              THEN <<>>
              ELSE [i \in 1..(IF Len(ReleaseDate.v) < 4
                              THEN Len(ReleaseDate.v) ELSE 4) |->
                        ReleaseDate.v[i]],
     poster_url |-> IF NoPosterPath
                    THEN JNull
                    ELSE JStr("https://image.tmdb.org/t/p/w500"
                              \o PosterPath.v),
     genres |-> [i \in 1..(IF Len(DetailGenreNames) < 3
                           THEN Len(DetailGenreNames) ELSE 3) |->
                     DetailGenreNames[i]]]

\* C16: whatever was handled before and whatever /health is answered beside
\* it, a lookup that ends found:true has made its own search call and then
\* its own detail call, and its result is made of its own request and of the
\* two payloads it received.
C16_LookupIsStateless ==
    LookupResult(TRUE) =>
        /\ HasResults
        /\ Results # <<>>
        /\ details_response.kind = "json"
        /\ Len(outbound) = 2
        /\ outbound[1].api = "tmdb_search"
        /\ outbound[1].params.query = request.title
        /\ outbound[2] = [api |-> "tmdb_detail", movie_id |-> Results[1].id]
        /\ response.body.movie = ExpectedMovie

\* the same title resolved by the request just before, and a /health answered
C16_Witness ==
    /\ repeated
    /\ LookupResult(TRUE)
    /\ Len(outbound) = 2
    /\ health_response # NoResponse

\* C17: from the step on which the generator is closed under a client that
\* went away, no chunk is retrieved, no provider call is made and no frame is
\* yielded, and the generator does not go on.
C17_DisconnectStopsTheStream ==
    [][/\ gen_pc' = "cancelled" =>
              events' = events /\ chunks' = chunks /\ outbound' = outbound
       /\ gen_pc = "cancelled" =>
              gen_pc' \in {"cancelled", "none", "start"}]_vars

\* closed after one text frame, before any terminal frame
C17_Witness ==
    /\ gen_pc = "cancelled"
    /\ Len(events) = 1
    /\ IsTextEvent(events[1])
    /\ Len(chunks) = 2

====
